---- MODULE Spec2Model ----
(***************************************************************************)
(* Model of the price-per-TB scrapers: crawl.py (newegg.com crawler with   *)
(* an on-disk page cache, parse_page, group_items, build) and              *)
(* hdd_price_scraper.py (parse_price, parse_capacity_tb, the three         *)
(* scrapers and the report table of __main__).                             *)
(*                                                                         *)
(* Text is modelled as a sequence of one-character strings, so that the    *)
(* regular expressions and the number constructors are computed character  *)
(* by character, the way the code computes them.  The two non-ASCII        *)
(* currency signs are the one-character tokens "euro" and "pound".         *)
(*                                                                         *)
(* Numbers: a Decimal or float value is the record [coef, scale] standing  *)
(* for coef / 10^scale; a quotient is the reduced fraction [num, den].     *)
(***************************************************************************)
EXTENDS Integers, Sequences, FiniteSets, TLC

VARIABLES
    text,           \* SpecText: the input text handed to a normalizer
    fn,             \* SpecText: the normalizer that ran on it ("none" before)
    out,            \* SpecText: what that normalizer returned or raised
    prog,           \* Spec: which program runs, "crawl" or "hdd"
    pc,             \* Spec: position of the running program's main
    files,          \* crawl.py: the cached pages of each category, in page order
    data,           \* crawl.py: build()'s list(group_items(today)) so far
    err,            \* the exception that ended the program, "" when none
    pages,          \* hdd_price_scraper: what each site serves
    all_results,    \* hdd_price_scraper: __main__'s all_results
    scraper_status, \* hdd_price_scraper: __main__'s scraper_status
    rendered,       \* the rows handed to the report renderer, per list
    today,          \* SpecFetch: date.today() of the run
    dirs,           \* SpecFetch: the dated directories that exist in data_root
    download,       \* SpecFetch: get_pages' local flag of the same name
    trace,          \* what the run did so far, in order: get_pages' requests,
                    \* sleeps and cache reads; the scrapers' requests and
                    \* browser steps
    loop            \* SpecFetch: get_pages' loop variables

vars == <<text, fn, out, prog, pc, files, data, err, pages, all_results,
          scraper_status, rendered, today, dirs, download, trace, loop>>

fetch_vars == <<today, dirs, download, trace, loop>>

(* An entry of the trace: what was done, for which category or site, on
   which page. *)
Event(op, name, page) == [op |-> op, name |-> name, page |-> page]

(* The fetch state of a specification that never runs get_pages. *)
NoFetch ==
    /\ today = [year |-> 0, month |-> 0, day |-> 0] /\ dirs = {}
    /\ download = FALSE /\ trace = <<>>
    /\ loop = [name |-> 0, page_num |-> 0, page_count |-> 0, run |-> 0]

-----------------------------------------------------------------------------
(* Bounds of the model *)

\* longest generated title / price text (all strings up to this length)
MaxLen == 3

\* most item containers served to one run of a program, over all its pages
MaxItems == 2

-----------------------------------------------------------------------------
(* Characters *)

Digits == {"0", "1", "2", "3", "4", "5", "6", "7", "8", "9"}

DigitVal(c) ==
    CASE c = "0" -> 0 [] c = "1" -> 1 [] c = "2" -> 2 [] c = "3" -> 3
      [] c = "4" -> 4 [] c = "5" -> 5 [] c = "6" -> 6 [] c = "7" -> 7
      [] c = "8" -> 8 [] c = "9" -> 9

UpperLetters == {"A", "B", "C", "D", "E", "G", "H", "I", "M", "N", "O", "P",
                 "R", "S", "T", "U"}

LowerLetters == {"a", "b", "c", "d", "e", "g", "h", "i", "m", "n", "o", "p",
                 "r", "s", "t", "u", "x", "y", "f"}

\* str.lower() on one character
Lower(c) ==
    CASE c = "A" -> "a" [] c = "B" -> "b" [] c = "C" -> "c" [] c = "D" -> "d"
      [] c = "E" -> "e" [] c = "G" -> "g" [] c = "H" -> "h" [] c = "I" -> "i"
      [] c = "M" -> "m" [] c = "N" -> "n" [] c = "O" -> "o" [] c = "P" -> "p"
      [] c = "R" -> "r" [] c = "S" -> "s" [] c = "T" -> "t" [] c = "U" -> "u"
      [] OTHER -> c

\* the regular expressions' \w, \s and [0-9.]
WordChars == Digits \cup UpperLetters \cup LowerLetters \cup {"_"}
SpaceChars == {" "}
NumChars == Digits \cup {"."}

LowerStr(s) == [i \in 1..Len(s) |-> Lower(s[i])]

\* s[i:] of Python, with i counted from 1
Suffix(s, i) == SubSeq(s, i, Len(s))

\* does pat occur in s starting at index i
StartsWithAt(s, i, pat) ==
    /\ i >= 1
    /\ i + Len(pat) - 1 <= Len(s)
    /\ \A j \in 1..Len(pat) : s[i + j - 1] = pat[j]

WordAt(s, i) == i >= 1 /\ i <= Len(s) /\ s[i] \in WordChars

\* \b at the position between s[i-1] and s[i]
Boundary(s, i) == WordAt(s, i - 1) # WordAt(s, i)

\* length of the longest run of characters of cls starting at s[i]
RECURSIVE RunLen(_, _, _)
RunLen(s, i, cls) ==
    IF i >= 1 /\ i <= Len(s) /\ s[i] \in cls
    THEN 1 + RunLen(s, i + 1, cls)
    ELSE 0

Max(S) == CHOOSE x \in S : \A y \in S : y <= x
Min(S) == CHOOSE x \in S : \A y \in S : x <= y

RECURSIVE Pow10(_)
Pow10(n) == IF n = 0 THEN 1 ELSE 10 * Pow10(n - 1)

RECURSIVE GCD(_, _)
GCD(a, b) == IF b = 0 THEN a ELSE GCD(b, a % b)

Abs(x) == IF x < 0 THEN -x ELSE x

-----------------------------------------------------------------------------
(* crawl.py: the size patterns *)

NoMatch == [found |-> FALSE]

\* the size patterns without their (?!/s) lookahead
SizeWaysNoLookahead(s, i, strict) ==
    IF ~Boundary(s, i) THEN {}
    ELSE { w \in (1..RunLen(s, i, NumChars)) \X {0, 1} \X {0, 1} :
             LET k == w[1]
                 sp == w[2]
                 b == w[3]
                 p == i + k + sp
                 e == p + 1 + b
             IN /\ (sp = 1 => (i + k <= Len(s) /\ s[i + k] = " "))
                /\ p <= Len(s)
                /\ s[p] \in {"T", "G", "t", "g"}
                /\ (b = 1 => (p + 1 <= Len(s) /\ s[p + 1] \in {"B", "b"}))
                /\ (strict => b = 1)
                /\ Boundary(s, e) }

\* The ways  \b([0-9.]+) ?([TGtg])[Bb]\b(?!/s)  (strict) or the same with
\* [Bb]?  (loose) can match s starting at index i: k characters of number,
\* sp optional spaces, b optional B's.
SizeWays(s, i, strict) ==
    IF ~Boundary(s, i) THEN {}
    ELSE { w \in (1..RunLen(s, i, NumChars)) \X {0, 1} \X {0, 1} :
             LET k == w[1]
                 sp == w[2]
                 b == w[3]
                 p == i + k + sp       \* index of the unit letter
                 e == p + 1 + b        \* index after the match
             IN /\ (sp = 1 => (i + k <= Len(s) /\ s[i + k] = " "))
                /\ p <= Len(s)
                /\ s[p] \in {"T", "G", "t", "g"}
                /\ (b = 1 => (p + 1 <= Len(s) /\ s[p + 1] \in {"B", "b"}))
                /\ (strict => b = 1)
                /\ Boundary(s, e)
                /\ ~StartsWithAt(s, e, <<"/", "s">>) }

\* the way the backtracking matcher finds first: longest number, then with
\* the space, then with the B
SizeFirstWay(W) ==
    LET k == Max({w[1] : w \in W})
        Wk == {w \in W : w[1] = k}
        sp == Max({w[2] : w \in Wk})
        Wsp == {w \in Wk : w[2] = sp}
        b == Max({w[3] : w \in Wsp})
    IN <<k, sp, b>>

\* the match object of way w at start i: group(1), group(2), start, end
SizeMatch(s, i, w) ==
    [found |-> TRUE,
     g1 |-> SubSeq(s, i, i + w[1] - 1),
     g2 |-> s[i + w[1] + w[2]],
     start |-> i,
     end |-> i + w[1] + w[2] + 1 + w[3]]

SizeMatchAt(s, i, strict) ==
    SizeMatch(s, i, SizeFirstWay(SizeWays(s, i, strict)))

SizeStarts(s, strict) == {i \in 1..Len(s) : SizeWays(s, i, strict) # {}}

\* pattern.search(s) for the two size patterns: the leftmost start
SizeSearchFrom(s, strict, starts) ==
    IF starts = {} THEN NoMatch ELSE SizeMatchAt(s, Min(starts), strict)

SizeSearch(s, strict) == SizeSearchFrom(s, strict, SizeStarts(s, strict))

re_size1(s) == SizeSearch(s, TRUE)

re_size2(s) == SizeSearch(s, FALSE)

-----------------------------------------------------------------------------
(* Number constructors *)

RECURSIVE DigitsVal(_)
DigitsVal(s) ==
    IF s = <<>> THEN 0
    ELSE 10 * DigitsVal(SubSeq(s, 1, Len(s) - 1)) + DigitVal(s[Len(s)])

\* str.strip()
RECURSIVE Strip(_)
Strip(s) ==
    IF s = <<>> THEN s
    ELSE IF s[1] \in SpaceChars THEN Strip(Suffix(s, 2))
    ELSE IF s[Len(s)] \in SpaceChars THEN Strip(SubSeq(s, 1, Len(s) - 1))
    ELSE s

NotANumber == [ok |-> FALSE]

\* The numeric-string grammar shared by Decimal(str) and float(str), on the
\* characters of this model: surrounding whitespace, an optional sign, digits
\* with at most one point and at least one digit, or one of the words nan,
\* inf, infinity in any case.  (Exponents and underscores are outside the
\* model's texts.)
SpecialWords == {<<"n", "a", "n">>, <<"i", "n", "f">>,
                 <<"i", "n", "f", "i", "n", "i", "t", "y">>}

\* the value float("nan") or float("inf") (Decimal likewise): not a number
\* with a coefficient
Special(word) == [ok |-> TRUE, special |-> IF word[1] = "n" THEN "nan" ELSE "inf"]

IsSpecial(v) == "special" \in DOMAIN v

NumberBody(neg, body) ==
    LET dots == {i \in 1..Len(body) : body[i] = "."}
        digs == SelectSeq(body, LAMBDA c : c \in Digits)
    IN IF /\ body # <<>>
          /\ \A i \in 1..Len(body) : body[i] \in NumChars
          /\ Cardinality(dots) <= 1
          /\ digs # <<>>
       THEN [ok |-> TRUE,
             coef |-> IF neg THEN -DigitsVal(digs) ELSE DigitsVal(digs),
             scale |-> IF dots = {} THEN 0
                       ELSE Len(body) - (CHOOSE i \in dots : TRUE)]
       ELSE NotANumber

NumberSigned(neg, body) ==
    IF LowerStr(body) \in SpecialWords THEN Special(LowerStr(body))
    ELSE NumberBody(neg, body)

NumberStripped(t) ==
    IF t # <<>> /\ t[1] \in {"-", "+"}
    THEN NumberSigned(t[1] = "-", Suffix(t, 2))
    ELSE NumberSigned(FALSE, t)

NumberOf(s) == NumberStripped(Strip(s))

\* decimal.Decimal(s): raises InvalidOperation when ok is FALSE
DecimalOf(s) == NumberOf(s)

\* float(s): raises ValueError when ok is FALSE
FloatOf(s) == NumberOf(s)

Dec(coef, scale) == [ok |-> TRUE, coef |-> coef, scale |-> scale]

\* numeric equality and order of two [coef, scale] values
DecEq(a, b) == a.coef * Pow10(b.scale) = b.coef * Pow10(a.scale)
DecLess(a, b) == a.coef * Pow10(b.scale) < b.coef * Pow10(a.scale)

\* a / b as a reduced fraction with a positive denominator (b # 0)
Ratio(n, d) ==
    LET g == GCD(Abs(n), Abs(d))
        sgn == IF d < 0 THEN -1 ELSE 1
    IN [num |-> sgn * (n \div g), den |-> sgn * (d \div g)]

RatioLess(a, b) == a.num * b.den < b.num * a.den
RatioLeq(a, b) == a.num * b.den <= b.num * a.den

-----------------------------------------------------------------------------
(* crawl.py parse_page: the inline price and size parsing *)

\* str.replace(",", "")
RemoveCommas(s) == SelectSeq(s, LAMBDA c : c # ",")

\* lines 233-237: Decimal(price_str.replace(",", "")); InvalidOperation is
\* printed and raised again
PriceOrRaise(d) ==
    IF d.ok THEN [kind |-> "value", v |-> d]
    ELSE [kind |-> "raise", exc |-> "InvalidOperation"]

CrawlPrice(price_str) == PriceOrRaise(DecimalOf(RemoveCommas(price_str)))

\* line 245: only an upper-case "T" scales by 1000
IsTera(unit) == unit = "T"

\* lines 238-240: the strict pattern's match, else the loose pattern's
OrLoose(m1, title) == IF m1.found THEN m1 ELSE re_size2(title)

SizeMatchOf(title) == OrLoose(re_size1(title), title)

\* terabytes scaled by 1024 instead of 1000
SizeValueBinary(m, d) ==
    IF ~d.ok THEN [kind |-> "raise", exc |-> "InvalidOperation"]
    ELSE [kind |-> "value",
          size |-> m.g1 \o <<m.g2, "B">>,
          v |-> IF IsTera(m.g2) THEN Dec(d.coef * 1024, d.scale) ELSE d,
          m |-> m]

\* lines 243-246: size and size_gb of match m, d being Decimal(m.group(1))
SizeValue(m, d) ==
    IF ~d.ok THEN [kind |-> "raise", exc |-> "InvalidOperation"]
    ELSE [kind |-> "value",
          size |-> m.g1 \o <<m.g2, "B">>,
          v |-> IF IsTera(m.g2) THEN Dec(d.coef * 1000, d.scale) ELSE d,
          m |-> m]

\* lines 241-246 for the match m
SizeOfMatch(m) ==
    IF ~m.found THEN [kind |-> "skip"] ELSE SizeValue(m, DecimalOf(m.g1))

CrawlSize(title) == SizeOfMatch(SizeMatchOf(title))

-----------------------------------------------------------------------------
(* hdd_price_scraper.py: parse_price and parse_capacity_tb *)

CurrencyTokens == {<<"U", "S", "D">>, <<"C", "A", "D">>, <<"E", "U", "R">>,
                   <<"G", "B", "P">>, <<"$">>, <<"pound">>, <<"euro">>,
                   <<",">>}

\* re.sub(r'(?:USD|CAD|EUR|GBP|\$|£|€|,)', '', s)
RECURSIVE RemoveCurrency(_)
RemoveCurrency(s) ==
    IF s = <<>> THEN s
    ELSE LET hit == {t \in CurrencyTokens : StartsWithAt(s, 1, t)}
         IN IF hit # {}
            THEN RemoveCurrency(Suffix(s, 1 + Len(CHOOSE t \in hit : TRUE)))
            ELSE <<s[1]>> \o RemoveCurrency(Suffix(s, 2))

\* s.split(c)[0]
BeforeFirst(s, cls) ==
    LET at == {i \in 1..Len(s) : s[i] \in cls}
    IN IF at = {} THEN s ELSE SubSeq(s, 1, Min(at) - 1)

\* lines 58-60: except (ValueError, TypeError): return None
PriceNotParsed(exc) == [kind |-> "none"]

\* parse_price(price_str), lines 50-60
\* lines 54-56: currency and commas out, the lower bound of a range, the
\* text before the first whitespace
CleanPrice(price_str) ==
    BeforeFirst(BeforeFirst(RemoveCurrency(price_str), {"-"}), SpaceChars)

\* line 57 inside the try of lines 53-60
FloatOrNone(f) ==
    IF f.ok THEN [kind |-> "value", v |-> f] ELSE PriceNotParsed("ValueError")

parse_price(price_str) ==
    IF price_str = <<>> THEN [kind |-> "none"]
    ELSE FloatOrNone(FloatOf(Strip(CleanPrice(price_str))))

\* The ways (\d{lo,hi})\s*(?:unit|word)\b can match s starting at index i:
\* k digits, sp spaces, then alternative a.
CapWays(s, i, lo, hi, alts) ==
    { w \in (lo..hi) \X (0..Len(s)) \X alts :
        LET k == w[1]
            sp == w[2]
            e == i + k + sp + Len(w[3])
        IN /\ k <= RunLen(s, i, Digits)
           /\ sp <= RunLen(s, i + k, SpaceChars)
           /\ StartsWithAt(s, i + k + sp, w[3])
           /\ Boundary(s, e) }

\* re.search of such a pattern: leftmost start, most digits first
CapMatch(s, i, k) ==
    [found |-> TRUE, g1 |-> SubSeq(s, i, i + k - 1), start |-> i]

CapMatchAt(s, i, lo, hi, alts) ==
    CapMatch(s, i, Max({w[1] : w \in CapWays(s, i, lo, hi, alts)}))

CapSearchFrom(s, lo, hi, alts, starts) ==
    IF starts = {} THEN NoMatch ELSE CapMatchAt(s, Min(starts), lo, hi, alts)

CapSearch(s, lo, hi, alts) ==
    CapSearchFrom(s, lo, hi, alts,
                  {i \in 1..Len(s) : CapWays(s, i, lo, hi, alts) # {}})

TbAlts == {<<"t", "b">>, <<"t", "e", "r", "a", "b", "y", "t", "e">>}
GbAlts == {<<"g", "b">>, <<"g", "i", "g", "a", "b", "y", "t", "e">>}

\* round(n / 1000.0, 2) in hundredths; a tie (n ending in 5) goes the way
\* of the binary value of n / 1000.0, which is to the even neighbour when
\* the quotient is exact in binary and is not modelled otherwise
RoundHundredths(n) ==
    LET q == n \div 10
        r == n % 10
    IN IF r < 5 THEN q
       ELSE IF r > 5 THEN q + 1
       ELSE IF q % 2 = 0 THEN q ELSE q + 1

\* line 67: int(tb_match.group(1))
TbValue(m) == Dec(DigitsVal(m.g1), 0)

\* line 69: round(int(gb_match.group(1)) / 1000.0, 2)
GbValue(m) == Dec(RoundHundredths(DigitsVal(m.g1)), 2)

\* lines 66-70 for the two matches
CapacityOf(tb_match, gb_match) ==
    IF tb_match.found THEN [kind |-> "value", v |-> TbValue(tb_match)]
    ELSE IF gb_match.found THEN [kind |-> "value", v |-> GbValue(gb_match)]
    ELSE [kind |-> "none"]

CapacityLower(title_lower) ==
    CapacityOf(CapSearch(title_lower, 1, 3, TbAlts),
               CapSearch(title_lower, 3, 5, GbAlts))

\* parse_capacity_tb(title), lines 62-70: the capacity in TB
parse_capacity_tb(title) ==
    IF title = <<>> THEN [kind |-> "none"]
    ELSE CapacityLower(LowerStr(title))

\* truth value of a parsed number: None and zero are false
Truthy(r) == r.kind = "value" /\ (IsSpecial(r.v) \/ r.v.coef # 0)

-----------------------------------------------------------------------------
(* SpecText: the normalizers as functions of an arbitrary text *)

AllStrings(alphabet, n) == UNION {[1..k -> alphabet] : k \in 0..n}

TitleAlphabet == {"0", "2", ".", "T", "t", "G", "B", "b", " ", "/", "s"}
PriceAlphabet == {"0", "1", ".", ",", "$", "-", " ", "x"}

\* capacity expressions in context: prefix, number, space, unit, suffix
ExprPrefixes == {<<>>, <<"x", " ">>, <<"6", "G", "b", "/", "s", " ">>}
ExprNumbers == {<<"4">>, <<"0">>, <<"1", ".", "9", "2">>, <<"5", "0", "0">>,
                <<"1", ".", "2", ".", "3">>, <<"1", "2", "3", "4">>}
ExprSpaces == {<<>>, <<" ">>}
ExprUnits == {<<"T", "B">>, <<"t", "b">>, <<"T">>, <<"t">>, <<"T", "b">>,
              <<"G", "B">>, <<"g", "b">>, <<"G">>, <<"G", "b">>}
ExprSuffixes == {<<>>, <<"/", "s">>, <<" ", "x">>, <<"s">>}

ExprTexts ==
    {p \o n \o sp \o u \o x :
        p \in ExprPrefixes, n \in ExprNumbers, sp \in ExprSpaces,
        u \in ExprUnits, x \in ExprSuffixes}

\* the texts the program's documentation and the retailers' pages show
NamedTexts ==
    { <<"A", "c", "m", "e", " ", "4", "T", "B", " ", "H", "D", "D">>,
      <<"A", "c", "m", "e", " ", "2", "T", "B", " ", "H", "D", "D">>,
      <<"S", "A", "T", "A", " ", "6", "G", "b", "/", "s", " ", "H", "D", "D">>,
      <<"2", " ", "t", "e", "r", "a", "b", "y", "t", "e">>,
      <<"$", "1", ",", "2", "3", "4", ".", "5", "6">>,
      <<"euro", "9", "9", " ", "-", " ", "euro", "1", "2", "0">>,
      <<"1", "9", ".", "9", "9", " ", "(", "f", "r", "e", "e", ")">>,
      <<"U", "S", "D", "7", "9", ".", "9", "9">>,
      <<"$", " ", "7", "9">>,
      <<"N", "/", "A">>,
      <<"N", "a", "N">>,
      <<"$", "i", "n", "f">> }

Texts ==
    AllStrings(TitleAlphabet, MaxLen) \cup AllStrings(PriceAlphabet, MaxLen)
        \cup ExprTexts \cup NamedTexts

Idle ==
    /\ prog = "none" /\ pc = "none" /\ files = <<>> /\ data = <<>>
    /\ err = "" /\ pages = <<>> /\ all_results = <<>>
    /\ scraper_status = <<>> /\ rendered = <<>>
    /\ NoFetch

InitText ==
    /\ text \in Texts
    /\ fn = "none"
    /\ out = [kind |-> "pending"]
    /\ Idle

Apply(name, result) ==
    /\ fn = "none"
    /\ fn' = name
    /\ out' = result
    /\ UNCHANGED <<text, prog, pc, files, data, err, pages, all_results,
                   scraper_status, rendered>>
    /\ UNCHANGED fetch_vars

\* crawl.py parse_page lines 238-246 on text as the title
DoCrawlSize == Apply("crawl_size", CrawlSize(text))

\* crawl.py parse_page lines 233-237 on text as price_str
DoCrawlPrice == Apply("crawl_price", CrawlPrice(text))

\* hdd_price_scraper.parse_price(text)
DoParsePrice == Apply("parse_price", parse_price(text))

\* hdd_price_scraper.parse_capacity_tb(text)
DoParseCapacityTb == Apply("parse_capacity_tb", parse_capacity_tb(text))

NextText == DoCrawlSize \/ DoCrawlPrice \/ DoParsePrice \/ DoParseCapacityTb

SpecText == InitText /\ [][NextText]_vars

-----------------------------------------------------------------------------
(* Optional values: None is the empty sequence, Some(x) holds x *)

None == <<>>
Some(x) == <<x>>
IsNone(o) == o = <<>>
Get(o) == o[1]

-----------------------------------------------------------------------------
(* crawl.py: one item container of a cached page, and parse_page *)

\* An item container: link is the a.item-title element (its href and
\* text), price_map the text of li.price-map/a, li the current-price li
\* (its class, the text of its strong child, the text of the element after
\* the strong), promo the text of p.item-promo, btn the text of the
\* "btn btn-message " span, price_was whether span.price-was-data exists.
\* An element's text is None when the element holds no text.
Container(href, title, cls, strong, sup) ==
    [link |-> Some([href |-> Some(href), text |-> title]),
     price_map |-> None,
     li |-> Some([cls |-> cls, strong |-> Some(Some(strong)),
                  next |-> Some(Some(sup))]),
     promo |-> None,
     btn |-> None,
     price_was |-> FALSE]

\* str.find(pat), counted from 0, -1 when absent
Find(s, pat) ==
    LET at == {i \in 1..Len(s) : StartsWithAt(s, i, pat)}
    IN IF at = {} THEN -1 ELSE Min(at) - 1

ItemEq == <<"I", "t", "e", "m", "=">>

\* line 205: href[href.find("Item=") + 5:]
ItemNumber(href) == Suffix(href, Find(href, ItemEq) + 5 + 1)

\* hidden_price(item), lines 162-166
hidden_price(item) ==
    /\ ~IsNone(item.price_map)
    /\ Get(item.price_map) \in {"See price in cart", "See Price after Checkout"}

\* len(cur_price): the number of child elements of the current-price li
LiLen(li) == Len(li.strong) + Len(li.next)

\* out_of_stock(item), lines 169-183, past its assertion:
\* (A and B) or C, as Python groups it
out_of_stock(item) ==
    \/ /\ LiLen(Get(item.li)) = 0
       /\ ~IsNone(item.promo)
       /\ Get(item.promo) = "OUT OF STOCK"
    \/ /\ ~IsNone(item.btn)
       /\ Get(item.btn) = "Out Of Stock"

ComingSoon == <<"C", "O", "M", "I", "N", "G", " ", "S", "O", "O", "N">>

Raise(exc) == [kind |-> "raise", exc |-> exc]
Skip == [kind |-> "skip"]

\* the record with the price per gigabyte where the price per TB belongs
ItemRecordPerGB(number, title, price, sz) ==
    [kind |-> "item",
     price |-> price,
     title |-> title,
     size |-> sz.size,
     size_gb |-> sz.v,
     number |-> number,
     price_per_tb |-> Ratio(price.coef * Pow10(sz.v.scale),
                            sz.v.coef * Pow10(price.scale))]

\* lines 248-257: the record appended for a retained item
ItemRecord(number, title, price, sz) ==
    [kind |-> "item",
     price |-> price,
     title |-> title,
     size |-> sz.size,
     size_gb |-> sz.v,
     number |-> number,
     price_per_tb |-> Ratio(price.coef * Pow10(sz.v.scale) * 1000,
                            sz.v.coef * Pow10(price.scale))]

\* lines 238-257: the title's size, then the record; a size of zero makes
\* price / size_gb raise DivisionByZero (InvalidOperation for 0 / 0)
RecordOrRaise(number, title, price, sz) ==
    IF sz.kind # "value" THEN sz
    ELSE IF sz.v.coef = 0
    THEN Raise(IF price.coef = 0 THEN "InvalidOperation" ELSE "DivisionByZero")
    ELSE ItemRecord(number, title, price, sz)

SizeAndRecord(number, title, price) ==
    RecordOrRaise(number, title, price, CrawlSize(title))

\* lines 231-237: dollars.text + cents.text and its Decimal
PriceText(dollars, cents) ==
    IF dollars[1] = None THEN Raise("TypeError")
    ELSE IF cents # None /\ cents[1] = None THEN Raise("TypeError")
    ELSE CrawlPrice(dollars[1][1]
                      \o (IF cents = None THEN <<>> ELSE cents[1][1]))

\* lines 219-237 once dollars is looked up under both class spellings: d1
\* under "price-current", d2 under either
PriceFrom(item, li, d1, d2) ==
    IF d1 # None /\ d1[1] = Some(ComingSoon) THEN Skip
    ELSE IF d2 = None /\ item.price_was THEN Skip
    ELSE IF d2 = None THEN Raise("AttributeError")
    ELSE PriceText(d2, li.next)

\* lines 218 and 221-222: the strong under li[@class="price-current"], then
\* under li[@class="price-current "]
PriceOfLi(item, li) ==
    PriceFrom(item, li,
              IF li.cls = "price-current" THEN li.strong ELSE None,
              li.strong)

PriceOf(item) == PriceOfLi(item, item.li[1])

\* One pass of parse_page's loop body, lines 203-257, gives the record
\* appended for the item, Skip for a continue, Raise for an exception
\* leaving parse_page.  Lines 238-257 after the price p:
AfterPrice(item_number, title, p) ==
    IF p.kind # "value" THEN p ELSE SizeAndRecord(item_number, title, p.v)

\* the loop body without the assertion of line 214
ParseUnasserted(item, item_number, title) ==
    IF hidden_price(item) THEN Skip
    ELSE IF item.li = None THEN Raise("AssertionError")
    ELSE IF out_of_stock(item) THEN Skip
    ELSE AfterPrice(item_number, title, PriceOf(item))

\* lines 212-257 for the item's number and title
ParseNumbered(item, item_number, title) ==
    IF item_number = <<>> THEN Raise("AssertionError")
    ELSE IF hidden_price(item) THEN Skip
    ELSE IF item.li = None THEN Raise("AssertionError")
    ELSE IF out_of_stock(item) THEN Skip
    ELSE AfterPrice(item_number, title, PriceOf(item))

ParseItem(item) ==
    IF item.link = None THEN Raise("AttributeError")
    ELSE IF item.link[1].href = None THEN Raise("AttributeError")
    ELSE ParseNumbered(item, ItemNumber(item.link[1].href[1]),
                       item.link[1].text)

\* parse_page(filename), lines 197-259: the items of the page, or the
\* exception of the first item that raises
RECURSIVE ParseFrom(_, _, _)

\* the loop goes on after the outcome r of item i
ParseStep(page, i, items, r) ==
    IF r.kind = "raise" THEN r
    ELSE IF r.kind = "skip" THEN ParseFrom(page, i + 1, items)
    ELSE ParseFrom(page, i + 1, Append(items, r))

ParseFrom(page, i, items) ==
    IF i > Len(page) THEN [kind |-> "items", items |-> items]
    ELSE ParseStep(page, i, items, ParseItem(page[i]))

parse_page(page) == ParseFrom(page, 1, <<>>)

-----------------------------------------------------------------------------
(* crawl.py: group_items and build *)

\* filter_params, lines 91-108: the categories in their order (the first two)
filter_params == <<"internal_35", "internal_25">>

\* x put into the sequence at position p
InsertAt(sorted, x, p) ==
    SubSeq(sorted, 1, p) \o <<x>> \o SubSeq(sorted, p + 1, Len(sorted))

LastOf(before) == IF before = {} THEN 0 ELSE Max(before)

\* line 311: key=lambda i: i["price_per_tb"]
CrawlKeyLeq(a, b) == RatioLeq(a.price_per_tb, b.price_per_tb)

\* an unstable sort: x goes before the elements of equal key
InsertBeforeEqual(sorted, x) ==
    InsertAt(sorted, x,
             LastOf({j \in 1..Len(sorted) :
                       RatioLess(sorted[j].price_per_tb, x.price_per_tb)}))

\* list.sort(key=...) is stable: x goes after every element whose key is
\* not greater than its own
InsertByKey(sorted, x) ==
    InsertAt(sorted, x,
             LastOf({j \in 1..Len(sorted) : CrawlKeyLeq(sorted[j], x)}))

SortByKey(xs) ==
    LET S[n \in 0..Len(xs)] ==
            IF n = 0 THEN <<>> ELSE InsertByKey(S[n - 1], xs[n])
    IN S[Len(xs)]

\* group_items with no check of the seen numbers
KeepAll(item, seen) == TRUE

\* lines 305-309: an item whose number was seen is logged and dropped
KeepItem(item, seen) == item.number \notin seen

\* lines 304-309 for the items of one parsed page
RECURSIVE Dedup(_, _, _, _)
Dedup(parsed, i, seen, items) ==
    IF i > Len(parsed) THEN [seen |-> seen, items |-> items]
    ELSE IF KeepItem(parsed[i], seen)
    THEN Dedup(parsed, i + 1, seen \cup {parsed[i].number},
               Append(items, parsed[i]))
    ELSE Dedup(parsed, i + 1, seen, items)

\* lines 301-309: the pages of one category in page order; an exception of
\* parse_page leaves group_items
RECURSIVE GroupPages(_, _, _, _)

GroupNext(ps, k, d) == GroupPages(ps, k + 1, d.seen, d.items)

GroupStep(ps, k, seen, items, r) ==
    IF r.kind = "raise" THEN r
    ELSE GroupNext(ps, k, Dedup(r.items, 1, seen, items))

GroupPages(ps, k, seen, items) ==
    IF k > Len(ps) THEN [kind |-> "items", items |-> items]
    ELSE GroupStep(ps, k, seen, items, parse_page(ps[k]))

\* lines 311-312: the sorted list that is yielded
Ranked(items) == SortByKey(items)

\* one iteration of group_items' loop over filter_params, lines 299-312
Yielded(name, g) ==
    IF g.kind = "raise" THEN g
    ELSE [kind |-> "grouped", name |-> name, items |-> Ranked(g.items)]

\* a seen set that outlives the category it was made for
GroupOneSeenShared(name) ==
    Yielded(name,
            GroupPages(files[name], 1,
                       UNION {{data[c].items[i].number :
                                 i \in 1..Len(data[c].items)} :
                              c \in 1..Len(data)},
                       <<>>))

GroupOne(name) == Yielded(name, GroupPages(files[name], 1, {}, <<>>))

\* what build() line 323 does with the outcome g of the next category
Collect(g) ==
    IF g.kind = "raise"
    THEN /\ err' = g.exc
         /\ pc' = "crashed"
         /\ data' = data
    ELSE /\ data' = Append(data, [name |-> g.name, items |-> g.items])
         /\ pc' = IF Len(data) + 1 = Len(filter_params) THEN "render"
                  ELSE "group"
         /\ err' = err

\* build() line 323, list(group_items(today)): the next category
GroupCategory ==
    /\ prog = "crawl" /\ pc = "group"
    /\ Collect(GroupOne(filter_params[Len(data) + 1]))
    /\ UNCHANGED <<text, fn, out, prog, files, pages, all_results,
                   scraper_status, rendered>>
    /\ UNCHANGED fetch_vars

\* build() lines 324-334: the index and one item list per category
Build ==
    /\ prog = "crawl" /\ pc = "render"
    /\ rendered' = [i \in 1..Len(data) |-> data[i].items]
    /\ pc' = "done"
    /\ UNCHANGED <<text, fn, out, prog, files, data, err, pages, all_results,
                   scraper_status>>
    /\ UNCHANGED fetch_vars

-----------------------------------------------------------------------------
(* hdd_price_scraper.py: the scrapers and __main__ *)

MAX_PAGES_PER_SITE == 4

\* A listing container as the three scrapers read it: sponsored (Amazon's
\* sponsored label), url (the product URL when the title link and its href
\* pass the site's checks), title (the title text), price_str (the price
\* text when a price element is found).
Listing(url, title, price_str) ==
    [sponsored |-> FALSE, url |-> Some(url), title |-> title,
     price_str |-> Some(price_str)]

\* lines 174-175 (and 295-296, 432-433): zero or no capacity skips the item
CapacityMissing(c) == ~Truthy(c)

\* lines 169-172 (and 284-293, 427-430): the parsed price; None skips
PriceMissing(p) == p.kind = "none"

\* a scraper that appends the row whatever the parsers returned
ScrapeParsedUnchecked(retailer, item, p, c) ==
    [kind |-> "item",
     Retailer |-> retailer,
     Title |-> item.title,
     URL |-> item.url[1],
     Capacity |-> IF c.kind = "value" THEN c.v ELSE NotANumber,
     Price |-> IF p.kind = "value" THEN p.v ELSE NotANumber]

\* the loop body of a scraper, lines 139-179, 274-300, 413-437
\* lines 169-179 for the parsed price p and capacity c
ScrapeParsed(retailer, item, p, c) ==
    IF PriceMissing(p) THEN Skip
    ELSE IF CapacityMissing(c) THEN Skip
    ELSE IF Truthy(p) /\ Truthy(c) /\ item.title # <<>>
    THEN [kind |-> "item",
          Retailer |-> retailer,
          Title |-> item.title,
          URL |-> item.url[1],
          Capacity |-> c.v,
          Price |-> p.v]
    ELSE Skip

ScrapeItem(retailer, item) ==
    IF retailer = "Amazon" /\ item.sponsored THEN Skip
    ELSE IF item.url = None THEN Skip
    ELSE IF retailer = "Amazon" /\ item.title = <<>> THEN Skip
    ELSE IF item.price_str = None \/ item.price_str[1] = <<>> THEN Skip
    ELSE ScrapeParsed(retailer, item, parse_price(item.price_str[1]),
                      parse_capacity_tb(item.title))

\* results.append(data) for a retained item
Appended(results, r) ==
    IF r.kind = "item" THEN Append(results, r) ELSE results

RECURSIVE ScrapeItems(_, _, _, _)
ScrapeItems(retailer, items, i, results) ==
    IF i > Len(items) THEN results
    ELSE ScrapeItems(retailer, items, i + 1,
                     Appended(results, ScrapeItem(retailer, items[i])))

EmptyPage == [outcome |-> "ok", items |-> <<>>]

\* what a scraper hands back: its results or the exception that left it,
\* and what it did on the way
Returned(results, events) ==
    [kind |-> "results", results |-> results, events |-> events]

Raised(exc, events) == [kind |-> "raise", exc |-> exc, events |-> events]

\* a loop that goes on to the next page after a CAPTCHA or a 403/404/503
AmazonStopsOnlyWhenEmpty(r) == r.outcome = "ok" /\ r.items = <<>>

\* lines 106-108, 115-117, 130-135: a CAPTCHA page, an HTTP 403, 404 or 503
\* ("blocked") and a page without item containers break the loop
AmazonStops(r) ==
    \/ r.outcome \in {"captcha", "blocked"}
    \/ r.outcome = "ok" /\ r.items = <<>>

\* lines 109-111, 118, 119-121: a timeout, another HTTP status and another
\* request error continue with the next page
AmazonSkips(r) == r.outcome \in {"timeout", "http_error", "request_error"}

\* scrape_amazon, lines 97-184: responses[k] is what the k-th request
\* meets; a page the site does not have holds no items
RECURSIVE AmazonFrom(_, _, _, _)

\* lines 101-181 for the response r to the request of the page
AmazonPage(responses, page, results, events, r) ==
    CASE r.outcome = "raise" -> Raised("Exception", events)
      [] AmazonStops(r) -> Returned(results, events)
      [] AmazonSkips(r) -> AmazonFrom(responses, page + 1, results, events)
      [] OTHER ->
            AmazonFrom(responses, page + 1,
                       ScrapeItems("Amazon", r.items, 1, results), events)

AmazonFrom(responses, page, results, events) ==
    IF page > MAX_PAGES_PER_SITE THEN Returned(results, events)
    ELSE AmazonPage(responses, page, results,
                    Append(events, Event("request", "Amazon", page)),
                    IF page <= Len(responses) THEN responses[page]
                    ELSE EmptyPage)

scrape_amazon(responses) == AmazonFrom(responses, 1, <<>>, <<>>)

\* a finally clause that leaves the browser running
FinallyNoQuit(retailer, events) == events

\* lines 308-314 (and 445-451): the finally clause quits the driver when one
\* was created
Finally(retailer, events) ==
    IF \E i \in 1..Len(events) : events[i].op = "driver"
    THEN Append(events, Event("quit", retailer, 1))
    ELSE events

\* lines 206-262 (and 336-397): the driver is created, the page is loaded
\* and checked for a block, the item elements are waited for
Browser(retailer, r) ==
    CASE r.outcome = "no_driver" -> <<>>
      [] r.outcome \in {"blocked", "get_error"} ->
            <<Event("driver", retailer, 1), Event("get", retailer, 1)>>
      [] OTHER ->
            <<Event("driver", retailer, 1), Event("get", retailer, 1),
              Event("wait", retailer, 1)>>

\* line 264 (and 399): page_load_successful is set after the wait only
page_load_successful(r) == r.outcome \in {"ok", "parse_error"}

\* scrape_newegg, lines 187-317, and scrape_serverpartdeals, lines 320-454:
\* one page through the browser; items are parsed only after a successful
\* load, every exception raised inside the try is handled there and what
\* was gathered is returned ("raise": an exception before the try)
scrape_selenium(retailer, r) ==
    CASE r.outcome = "raise" -> Raised("Exception", <<>>)
      [] r.outcome = "ok" ->
            Returned(ScrapeItems(retailer, r.items, 1, <<>>),
                     Finally(retailer,
                             Append(Browser(retailer, r),
                                    Event("parse", retailer, 1))))
      [] page_load_successful(r) ->
            Returned(<<>>,
                     Finally(retailer,
                             Append(Browser(retailer, r),
                                    Event("parse", retailer, 1))))
      [] OTHER -> Returned(<<>>, Finally(retailer, Browser(retailer, r)))

Scrapers == <<"Amazon", "Newegg", "ServerPartDeals">>

RunScraper(site) ==
    IF site = "Amazon" THEN scrape_amazon(pages[site])
    ELSE scrape_selenium(site, pages[site])

\* a status entry that counts every row gathered so far
RecordCountsAll(site, r) ==
    /\ trace' = trace \o r.events
    /\ IF r.kind = "raise"
       THEN /\ all_results' = all_results
            /\ scraper_status' =
                  Append(scraper_status,
                         [site |-> site, status |-> "Failed", count |-> 0])
       ELSE /\ all_results' = all_results \o r.results
            /\ scraper_status' =
                  Append(scraper_status,
                         [site |-> site, status |-> "Success",
                          count |-> Len(all_results')])

\* __main__ lines 480-502: the try/except around one scraper, r being the
\* scraper's outcome
Record(site, r) ==
    /\ trace' = trace \o r.events
    /\ IF r.kind = "raise"
       THEN /\ all_results' = all_results
            /\ scraper_status' =
                  Append(scraper_status,
                         [site |-> site, status |-> "Failed", count |-> 0])
       ELSE /\ all_results' = all_results \o r.results
            /\ scraper_status' =
                  Append(scraper_status,
                         [site |-> site, status |-> "Success",
                          count |-> Len(r.results)])

RunSite(site) == Record(site, RunScraper(site))

\* __main__ lines 480-502: the next scraper inside its try/except
RunNext ==
    /\ prog = "hdd" /\ pc = "scrape"
    /\ RunSite(Scrapers[Len(scraper_status) + 1])
    /\ pc' = IF Len(scraper_status) + 1 = Len(Scrapers) THEN "table"
             ELSE "scrape"
    /\ UNCHANGED <<text, fn, out, prog, files, data, err, pages, rendered>>
    /\ UNCHANGED <<today, dirs, download, loop>>

\* round(x, 2) of the quotient num / den (den > 0), in hundredths; an exact
\* tie goes to the even neighbour
RoundCents(num, den) ==
    LET q == (100 * num) \div den
        r2 == 2 * ((100 * num) % den)
    IN IF r2 < den THEN q
       ELSE IF r2 > den THEN q + 1
       ELSE IF q % 2 = 0 THEN q ELSE q + 1

\* the quotient cut to whole cents instead of rounded
PricePerTBFloor(row) ==
    (100 * row.Price.coef * Pow10(row.Capacity.scale))
        \div (row.Capacity.coef * Pow10(row.Price.scale))

\* lines 541-544: round(row['Price'] / row['Capacity (TB)'], 2)
PricePerTB(row) ==
    RoundCents(row.Price.coef * Pow10(row.Capacity.scale),
               row.Capacity.coef * Pow10(row.Price.scale))

WithPricePerTB(rows) ==
    [i \in 1..Len(rows) |->
        [Retailer |-> rows[i].Retailer, Title |-> rows[i].Title,
         URL |-> rows[i].URL, Capacity |-> rows[i].Capacity,
         Price |-> rows[i].Price, PricePerTB |-> PricePerTB(rows[i])]]

\* order of the retailer names as Python compares strings
RetailerRank(r) ==
    CASE r = "Amazon" -> 1 [] r = "Newegg" -> 2 [] r = "ServerPartDeals" -> 3

\* sort_values with ascending=False
TableKeyDescending(a, b) ==
    \/ a.PricePerTB > b.PricePerTB
    \/ /\ a.PricePerTB = b.PricePerTB
       /\ RetailerRank(a.Retailer) >= RetailerRank(b.Retailer)

\* line 546: sort_values(by=['Price per TB ($)', 'Retailer'], ascending=True)
TableKeyLeq(a, b) ==
    \/ a.PricePerTB < b.PricePerTB
    \/ /\ a.PricePerTB = b.PricePerTB
       /\ RetailerRank(a.Retailer) <= RetailerRank(b.Retailer)

\* sort_values keeps rows of equal keys in their order
InsertRow(sorted, x) ==
    InsertAt(sorted, x,
             LastOf({j \in 1..Len(sorted) : TableKeyLeq(sorted[j], x)}))

SortRows(xs) ==
    LET S[n \in 0..Len(xs)] ==
            IF n = 0 THEN <<>> ELSE InsertRow(S[n - 1], xs[n])
    IN S[Len(xs)]

\* lines 540-546: df_sorted
df_sorted(rows) == SortRows(WithPricePerTB(rows))

\* __main__ lines 531-573: the table rows of the report
BuildTable ==
    /\ prog = "hdd" /\ pc = "table"
    /\ rendered' = <<df_sorted(all_results)>>
    /\ pc' = "done"
    /\ UNCHANGED <<text, fn, out, prog, files, data, err, pages, all_results,
                   scraper_status>>
    /\ UNCHANGED fetch_vars

-----------------------------------------------------------------------------
(* Spec: one run of crawl.py's build() or of hdd_price_scraper's __main__  *)
(* over pages drawn from a pool of item containers                         *)

Href(n) == ItemEq \o <<n>>

\* newegg.com item containers as crawl.py reads them: number, title,
\* dollars and cents
ItemPool ==
    { Container(Href("A"), <<"4", "T", "B">>, "price-current", <<"8">>, <<".", "0">>),
      Container(Href("A"), <<"4", "T", "B">>, "price-current", <<"9">>, <<".", "0">>),
      Container(Href("B"), <<"2", "T", "B">>, "price-current", <<"4">>, <<".", "0">>),
      Container(Href("B"), <<"2", "T", "B">>, "price-current ", <<"3">>, <<".", "0">>),
      Container(Href("C"), <<"0", "T", "B">>, "price-current", <<"8">>, <<".", "0">>),
      Container(Href("D"), <<"H", "D", "D">>, "price-current", <<"8">>, <<".", "0">>),
      Container(Href("E"), <<"4", "T", "B">>, "price-current", <<"x">>, <<".", "0">>),
      Container(Href("F"), <<"4", "t", "b">>, "price-current", <<"8">>, <<".", "0">>) }

\* the documented scenario: Acme 4TB HDD at 79.99, Acme 2TB HDD at 49.99 and
\* the 4TB item met again at 84.99
AcmeTitle(n) == <<"A", "c", "m", "e", " ", n, "T", "B", " ", "H", "D", "D">>

AcmeItem(n, tb, dollars) ==
    Container(Href(n), AcmeTitle(tb), "price-current", dollars, <<".", "9", "9">>)

ScenarioFeeds ==
    LET a1 == AcmeItem("A", "4", <<"7", "9">>)
        b == AcmeItem("B", "2", <<"4", "9">>)
        a2 == AcmeItem("A", "4", <<"8", "4">>)
    IN {<<a1, b, a2>>, <<a1, a2, b>>, <<b, a1, a2>>}

\* listing containers as hdd_price_scraper's scrapers read them
ListingPool ==
    { Listing("u1", <<"4", "T", "B">>, <<"$", "8">>),
      Listing("u1", <<"4", "T", "B">>, <<"$", "9">>),
      Listing("u2", <<"2", "T", "B">>, <<"$", "4">>),
      Listing("u3", <<"0", "T", "B">>, <<"$", "8">>),
      Listing("u4", <<"H", "D", "D">>, <<"$", "8">>),
      Listing("u5", <<"4", "T", "B">>, <<"N", "/", "A">>),
      Listing("u6", <<"1", ".", "9", "2", "T", "B">>, <<"$", "8">>) }

Feeds(pool) == UNION {[1..n -> pool] : n \in 0..MaxItems}

\* the ways to cut a feed into nslots consecutive pages
Layouts(feed, nslots) ==
    {f \in [1..Len(feed) -> 1..nslots] :
        \A i, j \in 1..Len(feed) : i <= j => f[i] <= f[j]}

PageOf(feed, f, k) ==
    LET idx == {i \in 1..Len(feed) : f[i] = k}
    IN IF idx = {} THEN <<>> ELSE SubSeq(feed, Min(idx), Max(idx))

\* what a request can meet besides a page of listings
Faults ==
    {"none", "amazon_timeout", "amazon_raise", "newegg_blocked",
     "amazon_captcha", "amazon_blocked", "amazon_http_error",
     "amazon_request_error", "newegg_no_driver", "newegg_get_error",
     "newegg_timeout", "newegg_parse_error", "spd_blocked"}

\* the listings served under a fault: every listing of the pool when all
\* requests succeed, two complete listings otherwise
ListingsUnder(fault) ==
    IF fault = "none" THEN ListingPool
    ELSE { Listing("u1", <<"4", "T", "B">>, <<"$", "8">>),
           Listing("u2", <<"2", "T", "B">>, <<"$", "4">>) }

\* the part of a fault's name after the site
FaultOutcome(fault) ==
    CASE fault \in {"amazon_captcha"} -> "captcha"
      [] fault \in {"amazon_blocked", "newegg_blocked", "spd_blocked"} ->
            "blocked"
      [] fault = "amazon_http_error" -> "http_error"
      [] fault = "amazon_request_error" -> "request_error"
      [] fault = "newegg_no_driver" -> "no_driver"
      [] fault = "newegg_get_error" -> "get_error"
      [] fault = "newegg_timeout" -> "timeout"
      [] fault = "newegg_parse_error" -> "parse_error"
      [] OTHER -> "ok"

InitCrawl ==
    /\ prog = "crawl" /\ pc = "group"
    /\ \E feed \in Feeds(ItemPool) \cup ScenarioFeeds :
       \E f \in Layouts(feed, 3) :
          files = [internal_35 |-> <<PageOf(feed, f, 1), PageOf(feed, f, 2)>>,
                   internal_25 |-> <<PageOf(feed, f, 3)>>]
    /\ pages = <<>>

\* what Amazon's successive requests meet
AmazonResponses(p1, p2, fault) ==
    CASE fault = "amazon_timeout" ->
            <<[outcome |-> "timeout", items |-> <<>>],
              [outcome |-> "ok", items |-> p1]>>
      [] fault = "amazon_raise" ->
            <<[outcome |-> "ok", items |-> p1],
              [outcome |-> "raise", items |-> <<>>]>>
      [] fault \in {"amazon_captcha", "amazon_blocked", "amazon_http_error",
                    "amazon_request_error"} ->
            <<[outcome |-> "ok", items |-> p1],
              [outcome |-> FaultOutcome(fault), items |-> <<>>],
              [outcome |-> "ok", items |-> p2]>>
      [] OTHER ->
            <<[outcome |-> "ok", items |-> p1],
              [outcome |-> "ok", items |-> p2]>>

\* what the browser meets on Newegg's page
NeweggResponse(p, fault) ==
    [outcome |-> IF fault \in {"newegg_blocked", "newegg_no_driver",
                               "newegg_get_error", "newegg_timeout",
                               "newegg_parse_error"}
                 THEN FaultOutcome(fault) ELSE "ok",
     items |-> p]

InitHdd ==
    /\ prog = "hdd" /\ pc = "scrape"
    /\ \E fault \in Faults :
       \E feed \in Feeds(ListingsUnder(fault)) : \E f \in Layouts(feed, 3) :
          pages = [Amazon |-> AmazonResponses(PageOf(feed, f, 1),
                                              PageOf(feed, f, 2), fault),
                   Newegg |-> NeweggResponse(PageOf(feed, f, 3), fault),
                   ServerPartDeals |->
                       [outcome |-> IF fault = "spd_blocked" THEN "blocked"
                                    ELSE "ok",
                        items |-> <<>>]]
    /\ files = <<>>

Init ==
    /\ text = <<>> /\ fn = "idle" /\ out = [kind |-> "pending"]
    /\ data = <<>> /\ err = "" /\ all_results = <<>>
    /\ scraper_status = <<>> /\ rendered = <<>>
    /\ NoFetch
    /\ (InitCrawl \/ InitHdd)

Next == GroupCategory \/ Build \/ RunNext \/ BuildTable

Spec == Init /\ [][Next]_vars

-----------------------------------------------------------------------------
(* SpecPage: parse_page and its predicates on one cached page whose       *)
(* subject is an item container of any shape, alone or between two plain  *)
(* items                                                                   *)

OutOfStockText == "OUT OF STOCK"
OutOfStockButton == "Out Of Stock"

\* the a.item-title element: absent, without href, or with an href that
\* holds an item number, an empty one, or no "Item=" at all
Links ==
    {None}
      \cup {Some([href |-> h, text |-> <<"4", "T", "B">>]) :
               h \in {None, Some(Href("K")), Some(ItemEq),
                      Some(<<"/", "p", "/", "N", "8">>)}}

\* the current-price li: absent, or of either class spelling, with or
\* without a strong child (with or without text) and a following element
CurrentPrices ==
    {None}
      \cup {Some([cls |-> c, strong |-> st, next |-> nx]) :
               c \in {"price-current", "price-current "},
               st \in {None, Some(None), Some(Some(<<"8">>)),
                       Some(Some(ComingSoon))},
               nx \in {None, Some(Some(<<".", "0">>))}}

Subjects ==
    {[link |-> l, price_map |-> pm, li |-> li, promo |-> pr, btn |-> b,
      price_was |-> pw] :
        l \in Links,
        pm \in {None, Some("See price in cart"), Some("Add to cart")},
        li \in CurrentPrices,
        pr \in {None, Some(OutOfStockText), Some("Free Shipping")},
        b \in {None, Some(OutOfStockButton)},
        pw \in BOOLEAN}

PlainBefore ==
    Container(Href("G"), <<"4", "T", "B">>, "price-current", <<"8">>, <<".", "0">>)
PlainAfter ==
    Container(Href("H"), <<"2", "T", "B">>, "price-current ", <<"4">>, <<".", "0">>)

\* the subject of the page under study: its only or its middle item
SubjectAt(page) == (Len(page) + 1) \div 2
Subject == files[1][SubjectAt(files[1])]

InitPage ==
    /\ text = <<>> /\ fn = "none" /\ out = [kind |-> "pending"]
    /\ prog = "parse_page" /\ pc = "none"
    /\ \E x \in Subjects : files \in {<< <<x>> >>, << <<PlainBefore, x, PlainAfter>> >>}
    /\ data = <<>> /\ err = "" /\ pages = <<>> /\ all_results = <<>>
    /\ scraper_status = <<>> /\ rendered = <<>>
    /\ NoFetch

\* out_of_stock(item), lines 169-183, with its assertion
OutOfStockCall(item) ==
    IF item.li = None THEN Raise("AssertionError")
    ELSE [kind |-> "returned", v |-> out_of_stock(item)]

\* parse_page on the cached page
DoParsePage == Apply("parse_page", parse_page(files[1]))

\* out_of_stock on the subject
DoOutOfStock == Apply("out_of_stock", OutOfStockCall(Subject))

\* hidden_price on the subject
DoHiddenPrice ==
    Apply("hidden_price", [kind |-> "returned", v |-> hidden_price(Subject)])

NextPage == DoParsePage \/ DoOutOfStock \/ DoHiddenPrice

SpecPage == InitPage /\ [][NextPage]_vars

-----------------------------------------------------------------------------
(* Vocabulary of the properties *)

\* a written number: digits, optionally a point and more digits
IsNumeral(n) ==
    /\ n # <<>>
    /\ n[1] \in Digits /\ n[Len(n)] \in Digits
    /\ \A i \in 1..Len(n) : n[i] \in NumChars
    /\ Cardinality({i \in 1..Len(n) : n[i] = "."}) <= 1

\* text holds the capacity expression <N><unit> at index i, N being k
\* characters long, as a word of its own: nothing numeric before it, a
\* space or nothing after it
ExprAt(t, i, k, unit) ==
    /\ IsNumeral(SubSeq(t, i, i + k - 1))
    /\ \A j \in 1..(i - 1) : t[j] \notin NumChars
    /\ (i = 1 \/ t[i - 1] \notin WordChars)
    /\ StartsWithAt(t, i + k, unit)
    /\ (i + k + Len(unit) = Len(t) + 1 \/ t[i + k + Len(unit)] = " ")

Spans(t) == {e \in (1..Len(t)) \X (1..Len(t)) : e[1] + e[2] - 1 <= Len(t)}

Exprs(t, unit) == {e \in Spans(t) : ExprAt(t, e[1], e[2], unit)}

\* the value of the numeral of expression e of t, times factor
ExprValue(t, e, factor) ==
    Dec(factor * NumberOf(SubSeq(t, e[1], e[1] + e[2] - 1)).coef,
        NumberOf(SubSeq(t, e[1], e[1] + e[2] - 1)).scale)

OutIs(e, factor) == out.kind = "value" /\ DecEq(out.v, ExprValue(text, e, factor))

RECURSIVE FlatFrom(_, _)
\* the records parse_page returns for the pages ps, in page and listing
\* order (no page of ps raises)
FlatFrom(ps, k) ==
    IF k > Len(ps) THEN <<>> ELSE parse_page(ps[k]).items \o FlatFrom(ps, k + 1)

FirstOf(flat, i) == \A j \in 1..(i - 1) : flat[j].number # flat[i].number

Adjacent(xs) == {i \in 1..Len(xs) : i < Len(xs)}

\* the raw containers of a category's pages, or of all the sites' pages
RECURSIVE Concat(_)
Concat(ss) == IF ss = <<>> THEN <<>> ELSE ss[1] \o Concat(Suffix(ss, 2))

Range(f) == {f[i] : i \in DOMAIN f}

Served ==
    IF prog = "hdd"
    THEN Range(Concat([i \in 1..Len(pages.Amazon) |-> pages.Amazon[i].items]))
            \cup Range(pages.Newegg.items)
            \cup Range(pages.ServerPartDeals.items)
    ELSE {}

Cached(name) == Range(Concat(files[name]))

-----------------------------------------------------------------------------
(* The properties *)

\* C1: dedup correctness in group_items.  In every category list that
\* group_items yields, no two records carry the same item number, and the
\* list holds exactly the records that come first for their number in page
\* and listing order: of two records with one number and different prices
\* the first one survives and the later one is dropped.
C1_DedupFirstWins ==
    \A c \in 1..Len(data) :
        LET flat == FlatFrom(files[data[c].name], 1)
            items == data[c].items
        IN /\ \A i, j \in 1..Len(items) :
                  items[i].number = items[j].number => i = j
           /\ \A i \in 1..Len(flat) :
                  FirstOf(flat, i) => \E m \in 1..Len(items) : items[m] = flat[i]
           /\ \A m \in 1..Len(items) :
                  \E i \in 1..Len(flat) : FirstOf(flat, i) /\ items[m] = flat[i]

\* C1 witness: a yielded category whose pages hold the same item number
\* twice with different prices
C1_Witness ==
    \E c \in 1..Len(data) :
        LET flat == FlatFrom(files[data[c].name], 1)
        IN \E i, j \in 1..Len(flat) :
              /\ i < j
              /\ flat[i].number = flat[j].number
              /\ ~DecEq(flat[i].price, flat[j].price)
              /\ Len(data[c].items) = 1

\* C2: ranking invariant.  In every category list of group_items and in
\* the sorted table of hdd_price_scraper's main, each record's price per
\* TB is at most its successor's, and when the two are equal the
\* retailers are in lexical order (crawl.py has the one retailer).
C2_Ranked ==
    /\ \A c \in 1..Len(data) : \A i \in Adjacent(data[c].items) :
          RatioLeq(data[c].items[i].price_per_tb,
                   data[c].items[i + 1].price_per_tb)
    /\ prog = "hdd" =>
          \A t \in 1..Len(rendered) : \A i \in Adjacent(rendered[t]) :
             LET a == rendered[t][i]
                 b == rendered[t][i + 1]
             IN /\ a.PricePerTB <= b.PricePerTB
                /\ a.PricePerTB = b.PricePerTB =>
                      RetailerRank(a.Retailer) <= RetailerRank(b.Retailer)

\* C2 witness: a table of two rows of which the cheaper per TB was
\* gathered last
C2_Witness ==
    /\ prog = "hdd" /\ pc = "done"
    /\ Len(all_results) = 2 /\ Len(rendered[1]) = 2
    /\ PricePerTB(all_results[2]) < PricePerTB(all_results[1])

\* C3: the sequence handed to the renderer is deduplicated on both build
\* paths: no two rendered rows of one list are the same listing of the same
\* retailer (crawl.py: the same item number; hdd_price_scraper: the same
\* retailer and product URL).
C3_RenderedDeduplicated ==
    \A t \in 1..Len(rendered) : \A i, j \in 1..Len(rendered[t]) :
        i # j =>
            IF prog = "crawl"
            THEN rendered[t][i].number # rendered[t][j].number
            ELSE \/ rendered[t][i].Retailer # rendered[t][j].Retailer
                 \/ rendered[t][i].URL # rendered[t][j].URL

\* C4: no partial records.  Every record gathered, ranked or rendered
\* comes from a served container whose price text and whose title both
\* parse, and carries that price and that capacity; a container whose
\* price or capacity does not parse has no record.
C4_CrawlFrom(r, x, p, c) ==
    /\ r.title = x.link[1].text
    /\ r.number = ItemNumber(x.link[1].href[1])
    /\ p.kind = "value" /\ r.price = p.v
    /\ c.kind = "value" /\ r.size_gb = c.v

C4_CrawlSourced(r, name) ==
    \E x \in Cached(name) :
        C4_CrawlFrom(r, x, PriceOf(x), CrawlSize(x.link[1].text))

C4_HddFrom(r, x, p, c) ==
    /\ r.Title = x.title /\ r.URL = x.url[1]
    /\ p.kind = "value" /\ r.Price = p.v
    /\ c.kind = "value" /\ r.Capacity = c.v

C4_HddSourced(r) ==
    \E x \in Served :
        C4_HddFrom(r, x, parse_price(x.price_str[1]), parse_capacity_tb(x.title))

C4_NoPartialRecords ==
    /\ \A c \in 1..Len(data) : \A i \in 1..Len(data[c].items) :
          C4_CrawlSourced(data[c].items[i], data[c].name)
    /\ \A i \in 1..Len(all_results) :
          /\ "Price" \in DOMAIN all_results[i]
          /\ "Capacity" \in DOMAIN all_results[i]
          /\ C4_HddSourced(all_results[i])
    /\ prog = "hdd" =>
          \A t \in 1..Len(rendered) : \A i \in 1..Len(rendered[t]) :
             C4_HddSourced(rendered[t][i])

\* C4 witness: a finished report with a row, from pages that also served
\* a container whose price or capacity does not parse
C4_Witness ==
    /\ prog = "hdd" /\ pc = "done"
    /\ Len(rendered[1]) >= 1
    /\ \E x \in Served :
          \/ parse_price(x.price_str[1]).kind = "none"
          \/ parse_capacity_tb(x.title).kind = "none"

\* C5: a zero capacity invalidates the record: the item is skipped, no
\* record has a capacity of zero or less, and extraction goes on without an
\* exception.
C5_ZeroCapacitySkipped ==
    /\ \A c \in 1..Len(data) : \A i \in 1..Len(data[c].items) :
          data[c].items[i].size_gb.coef > 0
    /\ \A i \in 1..Len(all_results) : all_results[i].Capacity.coef > 0
    /\ err \notin {"DivisionByZero"}

\* C6: neither normalizer raises on malformed input: for any text the
\* price parsing and the capacity parsing of both programs return a value
\* or signal NotFound.
C6_NormalizersNeverRaise == out.kind # "raise"

\* C7: crawl.py's capacity of a title whose capacity expression is <N>TB
\* is N * 1000 gigabytes, and of one whose expression is <N>GB is N
\* gigabytes.
C7_DecimalScaling ==
    fn = "crawl_size" =>
        /\ \A e \in Exprs(text, <<"T", "B">>) : OutIs(e, 1000)
        /\ \A e \in Exprs(text, <<"G", "B">>) : OutIs(e, 1)

\* C7 witness: a fractional number of terabytes inside a longer title
C7_Witness ==
    /\ fn = "crawl_size"
    /\ text = <<"x", " ", "1", ".", "9", "2", "T", "B", " ", "x">>
    /\ out.kind = "value" /\ DecEq(out.v, Dec(1920, 0))

\* C8: the unit is recognised case-insensitively: a title whose unit is in
\* lower case (tb, t, gb) yields the capacity of the same title with the
\* unit in upper case, so a lower-case terabyte value is multiplied by 1000
\* as well.
C8_UnitCaseInsensitive ==
    fn = "crawl_size" =>
        /\ \A e \in Exprs(text, <<"t", "b">>) : OutIs(e, 1000)
        /\ \A e \in Exprs(text, <<"t">>) : OutIs(e, 1000)
        /\ \A e \in Exprs(text, <<"g", "b">>) : OutIs(e, 1)

\* C9: fractional capacities are supported by every capacity parser: a
\* title containing 1.92TB yields 1920 gigabytes through crawl.py's size
\* patterns and 1.92 terabytes through parse_capacity_tb.
C9_FractionalCapacity ==
    \A e \in Exprs(text, <<"T", "B">>) :
        SubSeq(text, e[1], e[1] + e[2] - 1) = <<"1", ".", "9", "2">> =>
            /\ fn = "crawl_size" =>
                  out.kind = "value" /\ DecEq(out.v, Dec(1920, 0))
            /\ fn = "parse_capacity_tb" =>
                  out.kind = "value" /\ DecEq(out.v, Dec(192, 2))

\* C10: transfer-rate exclusion.  Neither size pattern ever matches an
\* expression that is immediately followed by "/s", so no capacity is taken
\* from one; a title whose only candidate is 6Gb/s yields no capacity and
\* the item is skipped.
SlashS == <<"/", "s">>

Sata6Gbs ==
    <<"S", "A", "T", "A", " ", "6", "G", "b", "/", "s", " ", "H", "D", "D">>

C10_TransferRateExcluded ==
    /\ re_size1(text).found => ~StartsWithAt(text, re_size1(text).end, SlashS)
    /\ re_size2(text).found => ~StartsWithAt(text, re_size2(text).end, SlashS)
    /\ (fn = "crawl_size" /\ out.kind = "value") =>
          ~StartsWithAt(text, out.m.end, SlashS)
    /\ (fn = "crawl_size" /\ text = Sata6Gbs) => out.kind = "skip"

\* C10 witness: the title SATA 6Gb/s HDD went through the size patterns
C10_Witness ==
    /\ fn = "crawl_size"
    /\ text = Sata6Gbs
    /\ out.kind = "skip"

\* C11: parse_price returns the value of the first amount of the text:
\* with the currency signs, codes and commas removed, the text cut at the
\* first "-" and at the first whitespace, a text that is a non-negative
\* decimal gives its value and any other text gives None; so "$1,234.56"
\* gives 1234.56, "euro 99 - euro 120" gives 99, "19.99 (free shipping)"
\* gives 19.99 and "N/A" gives None.
IsDecimalText(c) ==
    /\ \A i \in 1..Len(c) : c[i] \in NumChars
    /\ Cardinality({i \in 1..Len(c) : c[i] = "."}) <= 1
    /\ \E i \in 1..Len(c) : c[i] \in Digits

PriceIs(c) ==
    IF IsDecimalText(c)
    THEN /\ out.kind = "value"
         /\ ~IsSpecial(out.v)
         /\ DecEq(out.v, NumberOf(c))
    ELSE out.kind = "none"

PriceExample(t, coef, scale) ==
    text = t => (out.kind = "value" /\ out.v = Dec(coef, scale))

C11_ParsePrice ==
    fn = "parse_price" =>
        /\ PriceIs(Strip(CleanPrice(text)))
        /\ PriceExample(<<"$", "1", ",", "2", "3", "4", ".", "5", "6">>,
                        123456, 2)
        /\ PriceExample(<<"euro", "9", "9", " ", "-", " ", "euro", "1", "2",
                          "0">>, 99, 0)
        /\ PriceExample(<<"1", "9", ".", "9", "9", " ", "(", "f", "r", "e",
                          "e", ")">>, 1999, 2)
        /\ text = <<"N", "/", "A">> => out.kind = "none"

\* C12 (as stated): the three listings A (Acme 4TB HDD, 79.99), B (Acme 2TB
\* HDD, 49.99) and A again (84.99), parsed, deduplicated and ranked in one
\* category, give exactly two records: A with price 79.99, 4000 GB and
\* 19.998 per TB, before B with price 49.99, 2000 GB and 24.995 per TB.
C12_Scenario(c) == Concat(files[data[c].name]) \in ScenarioFeeds

C12_Records(items, perTbA) ==
    /\ Len(items) = 2
    /\ items[1].number = <<"A">> /\ items[1].title = AcmeTitle("4")
    /\ DecEq(items[1].price, Dec(7999, 2))
    /\ DecEq(items[1].size_gb, Dec(4000, 0))
    /\ items[1].price_per_tb = perTbA
    /\ items[2].number = <<"B">> /\ items[2].title = AcmeTitle("2")
    /\ DecEq(items[2].price, Dec(4999, 2))
    /\ DecEq(items[2].size_gb, Dec(2000, 0))
    /\ items[2].price_per_tb = Ratio(24995, 1000)

C12_EndToEndAsStated ==
    \A c \in 1..Len(data) :
        C12_Scenario(c) => C12_Records(data[c].items, Ratio(19998, 1000))

\* C12 (amended): the same, A's price per TB being 19.9975, the exact
\* quotient 79.99 / 4000 * 1000 that parse_page stores.
C12_EndToEnd ==
    \A c \in 1..Len(data) :
        C12_Scenario(c) => C12_Records(data[c].items, Ratio(199975, 10000))

\* C12 witness: the scenario's category has been grouped and rendered
C12_Witness ==
    /\ pc = "done"
    /\ \E c \in 1..Len(data) :
          C12_Scenario(c) /\ Len(data[c].items) = 2 /\ rendered[c] = data[c].items

\* C13: out_of_stock(item) is true exactly when the item's current-price
\* element is empty and, in addition, its promo text reads OUT OF STOCK or
\* its button message reads Out Of Stock; an item with a rendered current
\* price is never out of stock.
NoRenderedPrice(item) == LiLen(item.li[1]) = 0

C13_OutOfStockExactly ==
    (fn = "out_of_stock" /\ out.kind = "returned") =>
        (out.v <=> /\ NoRenderedPrice(Subject)
                   /\ \/ Subject.promo = Some(OutOfStockText)
                      \/ Subject.btn = Some(OutOfStockButton))

\* the item numbers of the records parse_page returned
NumbersOut == [i \in 1..Len(out.items) |-> out.items[i].number]

PlainNumbers == IF Len(files[1]) = 1 THEN <<>> ELSE << <<"G">>, <<"H">> >>

\* parse_page returned, with the records of the plain items and none for
\* the subject
SubjectDropped == out.kind = "items" /\ NumbersOut = PlainNumbers

\* the subject's title link gives the item number K
Numbered(item) == item.link # None /\ item.link[1].href = Some(Href("K"))

Hidden(item) == item.price_map = Some("See price in cart")

\* C14: exclusion scenario.  For an item container whose current-price
\* node is absent (no such li, or an empty one) and whose promo node reads
\* OUT OF STOCK, parse_page emits no record for the item and raises no
\* exception, and the other items of the page are still processed.
C14_OutOfStockScenario ==
    (/\ fn = "parse_page"
     /\ Numbered(Subject)
     /\ Subject.promo = Some(OutOfStockText)
     /\ (Subject.li = None \/ NoRenderedPrice(Subject))) =>
        SubjectDropped

\* the subject passes line 216: numbered, its li present, neither hidden
\* nor out of stock
Priced(item) ==
    /\ Numbered(item) /\ item.li # None
    /\ ~hidden_price(item) /\ ~out_of_stock(item)

\* C15: pending availability.  An item whose current-price node's text
\* reads COMING SOON is skipped by parse_page with no record and no
\* exception, under either spelling of the current-price class.
C15_ComingSoonSkipped ==
    (/\ fn = "parse_page"
     /\ Priced(Subject)
     /\ Subject.li[1].strong = Some(Some(ComingSoon))) =>
        SubjectDropped

\* C16: parse_page never emits a record with an empty item identifier,
\* whatever the page holds.
C16_NoEmptyIdentifier ==
    (fn = "parse_page" /\ out.kind = "items") =>
        \A i \in 1..Len(out.items) : out.items[i].number # <<>>

\* C16 witness: parse_page met a priced item whose href ends at "Item="
C16_Witness ==
    /\ fn = "parse_page"
    /\ Subject.link # None /\ Subject.link[1].href = Some(ItemEq)
    /\ Subject.li # None
    /\ Subject.li[1].strong = Some(Some(<<"8">>))
    /\ ~hidden_price(Subject) /\ ~out_of_stock(Subject)
    /\ out.kind = "raise"

\* the title link is missing, has no href, or its href gives an empty
\* item number
Unidentified(item) ==
    \/ item.link = None
    \/ item.link[1].href = None
    \/ ItemNumber(item.link[1].href[1]) = <<>>

\* C17: when an item's identifier cannot be derived, parse_page abandons
\* only that item and goes on with the next container: the records of the
\* other items of the page are still returned.
C17_UnidentifiedItemAbandoned ==
    (fn = "parse_page" /\ Unidentified(Subject)) => SubjectDropped

\* C18: the exclusion predicates come first, in the order hidden price,
\* out of stock, pending availability, missing required field: an item
\* with a hidden price is skipped with no record and no error, even when
\* its identifier, title link or price element is missing.
C18_HiddenPriceFirst ==
    (fn = "parse_page" /\ hidden_price(Subject)) => SubjectDropped

\* no current-price li, or none with a strong child that holds the price
NoPriceElement(item) == item.li = None \/ item.li[1].strong = None

\* neither the visibility rule nor the stock rule applies to the item
NotExcluded(item) ==
    /\ ~hidden_price(item)
    /\ item.promo # Some(OutOfStockText)
    /\ item.btn # Some(OutOfStockButton)

\* C19: a missing price is a recoverable gap.  An item with no locatable
\* price element, and not excluded by a stock or visibility rule, is
\* dropped by parse_page: no record, no exception, and the following items
\* are still processed.
C19_MissingPriceDropped ==
    (/\ fn = "parse_page"
     /\ Numbered(Subject)
     /\ NotExcluded(Subject)
     /\ NoPriceElement(Subject)) =>
        SubjectDropped

\* what the site's requests met, as a sequence of responses
Responses(site) == IF site = "Amazon" THEN pages[site] ELSE <<pages[site]>>

\* the site served item containers, or a request to it did not succeed
CandidatesOrFailure(site) ==
    \E i \in 1..Len(Responses(site)) :
        Responses(site)[i].items # <<>> \/ Responses(site)[i].outcome # "ok"

RowsOf(site) == {i \in 1..Len(all_results) : all_results[i].Retailer = site}

\* the status entry __main__ records for a site that legitimately has
\* nothing to list
EmptyStatus(site) == [site |-> site, status |-> "Success", count |-> 0]

\* C20: a run in which zero records are extracted from pages that held
\* item containers, or in which a scraper failed internally, leaves a
\* status entry that differs from the entry of a legitimately empty site.
C20_ZeroExtractedDistinguishable ==
    prog = "hdd" =>
        \A k \in 1..Len(scraper_status) :
            (CandidatesOrFailure(Scrapers[k]) /\ RowsOf(Scrapers[k]) = {}) =>
                scraper_status[k] # EmptyStatus(Scrapers[k])

\* the seen-set filter of group_items followed by its sort, on a sequence
\* of records
DedupAndRank(records) == Ranked(Dedup(records, 1, {}, <<>>).items)

\* C21: dedup idempotence.  Applying the seen-set filter and the sort of
\* group_items to a list that group_items yielded returns the same list.
C21_DedupIdempotent ==
    \A c \in 1..Len(data) : DedupAndRank(data[c].items) = data[c].items

\* C21 witness: a yielded list of two records of equal price per TB
C21_Witness ==
    \E c \in 1..Len(data) :
        /\ Len(data[c].items) = 2
        /\ data[c].items[1].number # data[c].items[2].number
        /\ data[c].items[1].price_per_tb = data[c].items[2].price_per_tb

-----------------------------------------------------------------------------
(* crawl.py: get_pages and get_data_dir over the dated cache directories *)

MaxPages == 2
MaxRuns == 2

(* The days a run can happen on; a month and a day below and above ten. *)
DatePool ==
    { [year |-> 2023, month |-> 12, day |-> 31],
      [year |-> 2024, month |-> 2, day |-> 1],
      [year |-> 2024, month |-> 10, day |-> 1],
      [year |-> 2024, month |-> 10, day |-> 2] }

DateLess(a, b) ==
    \/ a.year < b.year
    \/ a.year = b.year /\ a.month < b.month
    \/ a.year = b.year /\ a.month = b.month /\ a.day < b.day

DigitChar(n) == <<"0", "1", "2", "3", "4", "5", "6", "7", "8", "9">>[n + 1]

Padded(n, width) ==
    [i \in 1..width |-> DigitChar((n \div Pow10(width - i)) % 10)]

Unpadded(n) ==
    IF n < 10 THEN <<DigitChar(n)>>
    ELSE IF n < 100 THEN Padded(n, 2)
    ELSE IF n < 1000 THEN Padded(n, 3) ELSE Padded(n, 4)

(* str(date) without the zero padding of month and day. *)
DateStrUnpadded(d) ==
    Unpadded(d.year) \o <<"-">> \o Unpadded(d.month) \o <<"-">>
        \o Unpadded(d.day)

(* str(date): the ISO form YYYY-MM-DD. *)
DateStr(d) ==
    Padded(d.year, 4) \o <<"-">> \o Padded(d.month, 2) \o <<"-">>
        \o Padded(d.day, 2)

(* The code point order of the characters of a directory name. *)
CharCode(c) ==
    IF c = "-" THEN 45
    ELSE 48 + (CHOOSE n \in 0..9 : DigitChar(n) = c)

(* Python's < on str. *)
StrLess(a, b) ==
    \E i \in 1..(Min({Len(a), Len(b)}) + 1) :
        /\ \A j \in 1..(i - 1) : a[j] = b[j]
        /\ \/ i > Len(a) /\ i <= Len(b)
           \/ /\ i <= Len(a) /\ i <= Len(b)
              /\ CharCode(a[i]) < CharCode(b[i])

(* os.listdir(data_root) *)
listdir(ds) == {DateStr(d) : d \in ds}

get_data_dir(day, names) ==
    IF DateStr(day) \in names
    THEN [kind |-> "value", v |-> DateStr(day)]
    ELSE IF {x \in names : x[1] \in Digits} = {}
         THEN [kind |-> "raise", exc |-> "ValueError"]
         ELSE [kind |-> "value",
               v |-> CHOOSE x \in {y \in names : y[1] \in Digits} :
                        \A z \in {y \in names : y[1] \in Digits} :
                            ~StrLess(x, z)]

CategoryNames == {filter_params[i] : i \in 1..Len(filter_params)}

(* A cache check that never finds the file. *)
NeverExists(fs, name, page) == FALSE

(* os.path.exists(page_filename(today_dir, name, page)) *)
os_path_exists(fs, name, page) == page \in fs[name].have

(* A request that sleeps first whatever came before. *)
RequestAlwaysSlept(name, page, downloaded) ==
    <<Event("sleep", name, page), Event("fetch", name, page)>>

(* if download: random_sleep(); then get_product_list(...) *)
Request(name, page, downloaded) ==
    (IF downloaded THEN <<Event("sleep", name, page)>> ELSE <<>>)
        \o <<Event("fetch", name, page)>>

(* save_page: page 1 carries the page count the site reported, 0 when the
   page has no "Page n/N" marker. *)
save_page(fs, name, page, count) ==
    [fs EXCEPT ![name] =
        [have |-> @.have \cup {page},
         count |-> IF page = 1 THEN count ELSE @.count]]

(* What one visit of a page appends to the trace. *)
Visit(fs, name, page, downloaded) ==
    IF os_path_exists(fs, name, page)
    THEN <<Event("cached", name, page)>>
    ELSE Request(name, page, downloaded)

(* The loop variables after the page at hand, given the page count. *)
AfterPage(l, count) ==
    IF l.page_num < count
    THEN [l EXCEPT !.page_num = @ + 1, !.page_count = count]
    ELSE [l EXCEPT !.name = @ + 1, !.page_num = 1, !.page_count = 0]

CachedPages ==
    { [have |-> {}, count |-> 0], [have |-> {1}, count |-> 0] }
        \cup { [have |-> 1..kc[1], count |-> kc[2]] :
                 kc \in {x \in (1..MaxPages) \X (1..MaxPages) : x[1] <= x[2]} }

Complete(c) == c.count >= 1 /\ c.have = 1..c.count

(* What earlier runs of the day can have left: a category has pages only when
   the categories before it are complete. *)
Caches ==
    { f \in [CategoryNames -> CachedPages] :
        \A i \in 1..Len(filter_params) : \A j \in (i + 1)..Len(filter_params) :
            f[filter_params[j]].have # {} => Complete(f[filter_params[i]]) }

InitFetch ==
    /\ text = <<>> /\ fn = "none" /\ out = [kind |-> "pending"]
    /\ prog = "crawl" /\ pc = "start"
    /\ data = <<>> /\ err = "" /\ all_results = <<>>
    /\ scraper_status = <<>> /\ rendered = <<>>
    /\ today \in DatePool
    /\ dirs \in SUBSET {d \in DatePool : ~DateLess(today, d)}
    /\ files \in Caches
    /\ (today \notin dirs => \A n \in CategoryNames : files[n].have = {})
    /\ pages \in [CategoryNames -> 0..MaxPages]
    /\ download = FALSE /\ trace = <<>>
    /\ loop = [name |-> 0, page_num |-> 0, page_count |-> 0, run |-> 0]

(* get_pages up to its loop: the day's directory exists from here on. *)
GetPagesStart ==
    /\ pc = "start" \/ (pc = "done" /\ loop.run < MaxRuns)
    /\ dirs' = dirs \cup {today}
    /\ download' = FALSE
    /\ trace' = <<>>
    /\ loop' = [name |-> 1, page_num |-> 1, page_count |-> 0,
                run |-> loop.run + 1]
    /\ pc' = "get_pages"
    /\ UNCHANGED <<text, fn, out, prog, files, data, err, pages, all_results,
                   scraper_status, rendered, today>>

(* One pass of the outer loop up to get_page_count. *)
GetFirstPage ==
    /\ pc = "get_pages" /\ loop.page_num = 1
    /\ trace' = trace \o Visit(files, filter_params[loop.name], 1, download)
    /\ download' =
           (download \/ ~os_path_exists(files, filter_params[loop.name], 1))
    /\ files' = IF os_path_exists(files, filter_params[loop.name], 1)
                THEN files
                ELSE save_page(files, filter_params[loop.name], 1,
                               pages[filter_params[loop.name]])
    /\ IF files'[filter_params[loop.name]].count = 0
       THEN /\ pc' = "raised" /\ err' = "AssertionError"
            /\ loop' = loop
       ELSE /\ loop' = AfterPage(loop, files'[filter_params[loop.name]].count)
            /\ pc' = IF loop'.name > Len(filter_params)
                     THEN "done" ELSE "get_pages"
            /\ err' = err
    /\ UNCHANGED <<text, fn, out, prog, data, pages, all_results,
                   scraper_status, rendered, today, dirs>>

(* One pass of the inner loop over pages 2..page_count. *)
GetLaterPage ==
    /\ pc = "get_pages" /\ loop.page_num > 1
    /\ trace' = trace \o Visit(files, filter_params[loop.name],
                               loop.page_num, download)
    /\ download' = (download \/ ~os_path_exists(files, filter_params[loop.name],
                                                loop.page_num))
    /\ files' = IF os_path_exists(files, filter_params[loop.name],
                                  loop.page_num)
                THEN files
                ELSE save_page(files, filter_params[loop.name],
                               loop.page_num, 0)
    /\ loop' = AfterPage(loop, loop.page_count)
    /\ pc' = IF loop'.name > Len(filter_params) THEN "done" ELSE "get_pages"
    /\ UNCHANGED <<text, fn, out, prog, data, err, pages, all_results,
                   scraper_status, rendered, today, dirs>>

(* build()'s get_data_dir(date.today()), on the day of the run or later. *)
GetDataDir ==
    /\ pc \in {"start", "done"}
    /\ \E day \in DatePool :
        /\ ~DateLess(day, today)
        /\ today' = day
        /\ out' = get_data_dir(day, listdir(dirs))
    /\ fn' = "get_data_dir"
    /\ pc' = "built"
    /\ UNCHANGED <<text, prog, files, data, err, pages, all_results,
                   scraper_status, rendered, dirs, download, trace, loop>>

NextFetch == GetPagesStart \/ GetFirstPage \/ GetLaterPage \/ GetDataDir

SpecFetch == InitFetch /\ [][NextFetch]_vars

-----------------------------------------------------------------------------
(* Claims about get_pages and get_data_dir *)

Fetches(tr) == {i \in 1..Len(tr) : tr[i].op = "fetch"}

(* C22: the page cache prevents re-fetching. No step of get_pages requests a
   (category, page number) whose cache file exists in the day's directory
   when the page is visited, and a later run of the same day, which finds
   every page cached, performs no request at all. *)
C22_CachePreventsRefetch ==
    [][ /\ \A i \in (Len(trace) + 1)..Len(trace') :
              trace'[i].op = "fetch"
                  => trace'[i].page \notin files[trace'[i].name].have
        /\ (loop'.run >= 2 => Fetches(trace') = {}) ]_vars

C22_Witness ==
    /\ pc = "done" /\ loop.run = 2
    /\ Len(trace) >= 3
    /\ \A i \in 1..Len(trace) : trace[i].op = "cached"

(* C28: within one run of get_pages, random_sleep comes immediately before
   every request except the first request of the run, and it comes nowhere
   else: never before the first request, never for a page that is read from
   its cache file. *)
C28_SleepBeforeLaterFetches ==
    \A i \in 1..Len(trace) :
        /\ trace[i].op = "fetch"
               => ((\E j \in 1..(i - 1) : trace[j].op = "fetch")
                      <=> (i > 1 /\ trace[i - 1].op = "sleep"))
        /\ trace[i].op = "sleep"
               => (i < Len(trace) /\ trace[i + 1].op = "fetch")

C28_Witness ==
    /\ pc = "done"
    /\ \E i \in 1..(Len(trace) - 3) :
        /\ trace[i].op = "cached" /\ trace[i + 1].op = "fetch"
        /\ trace[i + 2].op = "sleep" /\ trace[i + 3].op = "fetch"

Latest(ds) == CHOOSE d \in ds : \A e \in ds : ~DateLess(d, e)

(* C25: get_data_dir returns today's data directory when it exists, and
   otherwise the existing data directory with the latest date. *)
C25_MostRecentDataDir ==
    (pc = "built" /\ dirs # {})
        => /\ out.kind = "value"
           /\ out.v = IF today \in dirs THEN DateStr(today)
                      ELSE DateStr(Latest(dirs))

C25_Witness ==
    /\ pc = "built" /\ today \notin dirs
    /\ Cardinality(dirs) >= 3
    /\ out = [kind |-> "value", v |-> DateStr(Latest(dirs))]

-----------------------------------------------------------------------------
(* Claims about the scope of the deduplication *)

ParsedNumbers(page) ==
    {parse_page(page).items[i].number :
        i \in 1..Len(parse_page(page).items)}

CategoryNumbers(name) ==
    UNION {ParsedNumbers(files[name][k]) : k \in 1..Len(files[name])}

ListedNumbers(c) == {data[c].items[i].number : i \in 1..Len(data[c].items)}

(* C23: deduplication is scoped to the category. Every item number parsed
   from the pages of a category is in that category's list, whatever the
   categories before it kept: a number that occurs in two categories is kept
   in both lists. *)
C23_DedupPerCategory ==
    \A c \in 1..Len(data) : ListedNumbers(c) = CategoryNumbers(data[c].name)

C23_Witness ==
    /\ Len(data) = 2
    /\ ListedNumbers(1) \cap ListedNumbers(2) # {}

-----------------------------------------------------------------------------
(* Claims about the price per TB of a record *)

(* crawl.py: price_per_tb / 1000 = price / size_gb, as reduced fractions *)
CrawlQuotientExact(r) ==
    Ratio(r.price_per_tb.num, r.price_per_tb.den * 1000)
        = Ratio(r.price.coef * Pow10(r.size_gb.scale),
                r.size_gb.coef * Pow10(r.price.scale))

(* hdd_price_scraper: the row's dollars and the row's terabytes as the
   numerator and the denominator of Price / Capacity (TB) *)
RowNum(row) == row.Price.coef * Pow10(row.Capacity.scale)
RowDen(row) == row.Capacity.coef * Pow10(row.Price.scale)

RowQuotientExact(row) == row.PricePerTB * RowDen(row) = 100 * RowNum(row)

RowQuotientRounded(row) ==
    2 * Abs(row.PricePerTB * RowDen(row) - 100 * RowNum(row)) <= RowDen(row)

(* C24 as stated: the price per TB of every emitted record equals its own
   price divided by its own capacity in terabytes, in the category lists of
   crawl.py and in the table of hdd_price_scraper. *)
C24_ExactQuotientAsStated ==
    /\ \A c \in 1..Len(data) : \A i \in 1..Len(data[c].items) :
          CrawlQuotientExact(data[c].items[i])
    /\ prog = "hdd" =>
          \A t \in 1..Len(rendered) : \A i \in 1..Len(rendered[t]) :
              RowQuotientExact(rendered[t][i])

(* C24: the price per TB of every emitted record is derived from its own
   price and its own capacity in terabytes: in crawl.py it is the exact
   quotient, in hdd_price_scraper it is the quotient rounded to whole cents
   (within half a cent of it). *)
C24_PricePerTBDerived ==
    /\ \A c \in 1..Len(data) : \A i \in 1..Len(data[c].items) :
          CrawlQuotientExact(data[c].items[i])
    /\ prog = "hdd" =>
          \A t \in 1..Len(rendered) : \A i \in 1..Len(rendered[t]) :
              RowQuotientRounded(rendered[t][i])

C24_Witness ==
    /\ prog = "hdd" /\ pc = "done"
    /\ \E t \in 1..Len(rendered) : \E i, j \in 1..Len(rendered[t]) :
        /\ ~RowQuotientExact(rendered[t][i])
        /\ RowQuotientExact(rendered[t][j])

-----------------------------------------------------------------------------
(* Claims about the item number of a record *)

(* the hrefs of the page's title links that contain "Item=" *)
ItemEqHrefs(page) ==
    {page[k].link[1].href[1] :
        k \in {j \in 1..Len(page) :
                 /\ page[j].link # None
                 /\ page[j].link[1].href # None
                 /\ Find(page[j].link[1].href[1], ItemEq) >= 0}}

(* the text that follows the first "Item=" of an href that contains it *)
AfterItemEq(href) == Suffix(href, Find(href, ItemEq) + Len(ItemEq) + 1)

(* C26: every record parse_page emits has as its number exactly the text
   that follows "Item=" in the href of a title link of the page; an item
   whose href does not contain "Item=" is never emitted with some other
   part of the href as its identifier. *)
C26_NumberFollowsItemEq ==
    (fn = "parse_page" /\ out.kind = "items") =>
        \A i \in 1..Len(out.items) :
            \E h \in ItemEqHrefs(files[1]) :
                out.items[i].number = AfterItemEq(h)

-----------------------------------------------------------------------------
(* Claims about the scrapers of hdd_price_scraper and its main *)

(* what the site's scraper did, in order *)
EventsOf(site) == SelectSeq(trace, LAMBDA e : e.name = site)

OpsOf(site) == [i \in 1..Len(EventsOf(site)) |-> EventsOf(site)[i].op]

(* what Amazon's k-th request meets *)
AmazonResponse(k) ==
    IF k <= Len(pages["Amazon"]) THEN pages["Amazon"][k] ELSE EmptyPage

(* the pages after which, by the claim, no further page is requested: a
   CAPTCHA page, an HTTP 403/404/503, a page without item containers (and
   the page on which an exception leaves the scraper) *)
StopPages ==
    {k \in 1..MAX_PAGES_PER_SITE :
        \/ AmazonResponse(k).outcome \in {"captcha", "blocked", "raise"}
        \/ /\ AmazonResponse(k).outcome = "ok"
           /\ AmazonResponse(k).items = <<>>}

LastRequested ==
    IF StopPages = {} THEN MAX_PAGES_PER_SITE ELSE Min(StopPages)

(* the item containers of the pages that were parsed, in page order *)
ParsedContainers ==
    Concat([k \in 1..(LastRequested - 1) |->
               IF AmazonResponse(k).outcome = "ok"
               THEN AmazonResponse(k).items ELSE <<>>])

(* C27: scrape_amazon requests the pages 1, 2, ... in increasing order up to
   max_pages; after a CAPTCHA page, an HTTP 403/404/503 or a page without
   item containers it requests no further page, after a timeout or another
   request error it goes on with the next page; and what it returns are the
   records of the pages parsed until then. *)
C27_AmazonPaging ==
    (prog = "hdd" /\ Len(scraper_status) >= 1) =>
        /\ EventsOf("Amazon") =
              [k \in 1..LastRequested |-> Event("request", "Amazon", k)]
        /\ scraper_status[1].status = "Success" =>
              SubSeq(all_results, 1, scraper_status[1].count)
                  = ScrapeItems("Amazon", ParsedContainers, 1, <<>>)

C27_Witness ==
    /\ prog = "hdd" /\ Len(scraper_status) >= 1
    /\ Len(pages["Amazon"]) = 3
    /\ pages["Amazon"][2].outcome = "captcha"
    /\ pages["Amazon"][3].items # <<>>
    /\ Len(EventsOf("Amazon")) = 2
    /\ scraper_status[1] = [site |-> "Amazon", status |-> "Success", count |-> 1]

(* C29: in scrape_newegg and scrape_serverpartdeals, once the driver has
   been created, driver.quit() is called exactly once, as the last thing
   done with the browser, whatever happened in between; and the items are
   parsed only after a load that met no block and a wait that succeeded. *)
C29_DriverQuitOnce ==
    \A k \in 2..Len(scraper_status) :
        /\ (\E i \in 1..Len(OpsOf(Scrapers[k])) :
                OpsOf(Scrapers[k])[i] = "driver") =>
              /\ Cardinality({i \in 1..Len(OpsOf(Scrapers[k])) :
                                 OpsOf(Scrapers[k])[i] = "quit"}) = 1
              /\ OpsOf(Scrapers[k])[Len(OpsOf(Scrapers[k]))] = "quit"
        /\ (\E i \in 1..Len(OpsOf(Scrapers[k])) :
                OpsOf(Scrapers[k])[i] = "parse") =>
              /\ pages[Scrapers[k]].outcome
                    \notin {"no_driver", "blocked", "get_error", "timeout"}
              /\ \E i, j \in 1..Len(OpsOf(Scrapers[k])) :
                    /\ i < j
                    /\ OpsOf(Scrapers[k])[i] = "wait"
                    /\ OpsOf(Scrapers[k])[j] = "parse"

C29_Witness ==
    /\ prog = "hdd" /\ Len(scraper_status) = 3
    /\ pages["Newegg"].outcome = "timeout"
    /\ OpsOf("Newegg") = <<"driver", "get", "wait", "quit">>
    /\ OpsOf("ServerPartDeals") = <<"driver", "get", "wait", "parse", "quit">>

SiteRank(site) == CHOOSE k \in 1..Len(Scrapers) : Scrapers[k] = site

(* an exception escapes the site's scraper: Amazon's on the page that
   raises, when the loop gets that far; a browser scraper's outside its try *)
Escapes(site) ==
    IF site = "Amazon" THEN AmazonResponse(LastRequested).outcome = "raise"
    ELSE pages[site].outcome = "raise"

(* C30: main runs the three scrapers in the order Amazon, Newegg,
   ServerPartDeals; an exception that escapes a scraper stops neither the
   scrapers after it nor the report: the failed scraper has status Failed
   and no rows, every other scraper has status Success and a count equal
   to the number of rows it contributed, and the report is written after
   all three have a status. *)
C30_FailureIsolated ==
    prog = "hdd" =>
        /\ pc \in {"scrape", "table", "done"} /\ err = ""
        /\ (pc = "scrape" <=> Len(scraper_status) < Len(Scrapers))
        /\ (pc = "done" => Len(rendered) = 1)
        /\ \A i \in 1..(Len(trace) - 1) :
              SiteRank(trace[i].name) <= SiteRank(trace[i + 1].name)
        /\ \A k \in 1..Len(scraper_status) :
              /\ scraper_status[k].site = Scrapers[k]
              /\ IF Escapes(Scrapers[k])
                 THEN /\ scraper_status[k].status = "Failed"
                      /\ RowsOf(Scrapers[k]) = {}
                 ELSE /\ scraper_status[k].status = "Success"
                      /\ scraper_status[k].count
                            = Cardinality(RowsOf(Scrapers[k]))

C30_Witness ==
    /\ prog = "hdd" /\ pc = "done"
    /\ scraper_status[1] = [site |-> "Amazon", status |-> "Failed", count |-> 0]
    /\ scraper_status[2] = [site |-> "Newegg", status |-> "Success", count |-> 1]
    /\ scraper_status[3].status = "Success"
    /\ Len(rendered[1]) = 1
    /\ pages["Amazon"][1].items # <<>>


=============================================================================
